---- MODULE Spec2Model ----
(***************************************************************************)
(* A model of three parts of modelbench / modelgauge:                       *)
(*   - the Standards store (src/src/modelbench/standards.py),               *)
(*   - the external data sources (src/src/modelgauge/external_data.py),     *)
(*   - the Google GenAI and Hugging Face SUT adapters (src/plugins/...).    *)
(* Strings whose characters matter (reference keys, locales) are sequences  *)
(* of one-character strings; reference values are hundredths (80 is 0.8).   *)
(***************************************************************************)
EXTENDS Integers, Sequences, FiniteSets, TLC

VARIABLES
    data,       \* Standards.data["reference_standards"]: key -> value
    stdCall,    \* the last call made on the Standards object, with its arguments
    stdRet,     \* what that call did: a returned value or a raised exception
    dlSrc,      \* the ExternalData object download is called on (a frozen dataclass)
    dlPc,       \* "idle", "running" (inside the retry loop), "returned" or "raised"
    attempts,   \* how many times the body of download has run in this call
    excLog,     \* the exception of each failed attempt of this call, in order
    propagated, \* the exception that reached the caller of download
    file,       \* the file at `location`: "absent", "empty" or "data"
    httpRequests, \* the HTTP requests SecretWebData issued in this call
    lastFetch,  \* what the last attempt saw from the remote side
    gModel,     \* GoogleGenAiSUT.model: None, or the client _load_client made
    gPc,        \* where each thread is inside GoogleGenAiSUT.evaluate
    gPrompt,    \* the prompt each thread's request was translated from
    gReq,       \* the request each thread is evaluating
    gSent,      \* the keyword arguments each thread has sent with generate_content
    hfCall,     \* the HuggingFaceSUT.evaluate call in progress: prompt, request, payload
    loadCalls,  \* how many times _load_client has been called on the SUT
    loadFailures, \* how many of those calls raised
    clientsUsed,  \* the clients generate_content has been called on
    evalCalls,  \* how many evaluate calls have been made on the GoogleGenAiSUT
    last        \* the last adapter operation that ended: its input and its result

stdVars == <<data, stdCall, stdRet>>
dlVars == <<dlSrc, dlPc, attempts, excLog, propagated, file, httpRequests, lastFetch>>
gFlight == <<gPrompt, gReq, gSent>>
sutVars ==
    <<gModel, gPc, gFlight, hfCall, loadCalls, loadFailures, clientsUsed, evalCalls, last>>
vars == <<stdVars, dlVars, sutVars>>

None == [kind |-> "none"]

(***************************************************************************)
(* Strings                                                                 *)
(***************************************************************************)
UpperToLower ==
    ("A" :> "a") @@ ("B" :> "b") @@ ("C" :> "c") @@ ("D" :> "d") @@ ("E" :> "e") @@
    ("F" :> "f") @@ ("G" :> "g") @@ ("H" :> "h") @@ ("I" :> "i") @@ ("J" :> "j") @@
    ("K" :> "k") @@ ("L" :> "l") @@ ("M" :> "m") @@ ("N" :> "n") @@ ("O" :> "o") @@
    ("P" :> "p") @@ ("Q" :> "q") @@ ("R" :> "r") @@ ("S" :> "s") @@ ("T" :> "t") @@
    ("U" :> "u") @@ ("V" :> "v") @@ ("W" :> "w") @@ ("X" :> "x") @@ ("Y" :> "y") @@
    ("Z" :> "z")

\* str.lower(): every upper-case letter replaced by its lower-case letter.
lower(s) ==
    [i \in 1..Len(s) |-> IF s[i] \in DOMAIN UpperToLower THEN UpperToLower[s[i]] ELSE s[i]]

\* Python's `sub in s` on strings: sub occurs in s as a contiguous run.
Contains(sub, s) ==
    \E i \in 0..(Len(s) - Len(sub)) : SubSeq(s, i + 1, i + Len(sub)) = sub

(***************************************************************************)
(* The inputs the model draws from                                         *)
(***************************************************************************)
K_dfm_en_US_practice ==
    <<"d", "f", "m", "_", "e", "n", "_", "U", "S", "_", "p", "r", "a", "c", "t", "i", "c", "e">>
K_dfm_en_US_official ==
    <<"d", "f", "m", "_", "e", "n", "_", "U", "S", "_", "o", "f", "f", "i", "c", "i", "a", "l">>
K_dfm_en_us_practice ==
    <<"d", "f", "m", "-", "e", "n", "_", "u", "s", "-", "p", "r", "a", "c", "t", "i", "c", "e">>
K_dfm_fr_fr_practice ==
    <<"d", "f", "m", "-", "f", "r", "_", "f", "r", "-", "p", "r", "a", "c", "t", "i", "c", "e">>
K_cse_EN_us_official ==
    <<"c", "s", "e", "-", "E", "N", "_", "u", "s", "-", "o", "f", "f", "i", "c", "i", "a", "l">>

KeyPool ==
    {K_dfm_en_US_practice, K_dfm_en_US_official, K_dfm_en_us_practice,
     K_dfm_fr_fr_practice, K_cse_EN_us_official}

L_empty == << >>
L_en_US == <<"e", "n", "_", "U", "S">>
L_en_us == <<"e", "n", "_", "u", "s">>
L_fr_FR == <<"f", "r", "_", "F", "R">>
L_hi_in == <<"h", "i", "_", "i", "n">>
L_zh_cn == <<"z", "h", "_", "c", "n">>
L_fr_fr == <<"f", "r", "_", "f", "r">>
L_xx_XX == <<"x", "x", "_", "X", "X">>

\* The locale arguments a caller passes.
LocaleArgs == {L_empty, L_en_US, L_en_us, L_fr_FR, L_hi_in, L_xx_XX}

Versions == {"1.0", "0.5"}

\* Reference values, in hundredths.
RefValues == {60, 80}

\* The largest number of keys a standards file of the model holds.
MaxKeys == 3

Stores ==
    UNION {[S -> RefValues] : S \in {T \in SUBSET KeyPool : Cardinality(T) <= MaxKeys}}

(***************************************************************************)
(* modelgauge.locales                                                      *)
(***************************************************************************)
LOCALES == {L_en_us, L_fr_fr, L_zh_cn, L_hi_in}

\* validate_locale(locale): an assertion that the locale is a supported one.
validate_locale(locale) == locale \in LOCALES

(***************************************************************************)
(* Standards                                                               *)
(***************************************************************************)
RECURSIVE SumOver(_, _)
SumOver(f, S) ==
    IF S = {} THEN 0
    ELSE LET k == CHOOSE x \in S : TRUE IN f[k] + SumOver(f, S \ {k})

\* statistics.fmean over the values of the keys in S: the exact sum over the count,
\* kept as a fraction.
fmean(f, S) == [num |-> SumOver(f, S), den |-> Cardinality(S)]

Return(v) == [kind |-> "return", value |-> v]
Raise(exc, about) == [kind |-> "raise", exc |-> exc, about |-> about]

\* A faulty variant of reference_standard_for: a default for an unknown name.
reference_standard_for_default(d, name) ==
    IF name \notin DOMAIN d THEN Return(0) ELSE Return(d[name])

\* Standards.reference_standard_for(name). The ValueError's message is
\* "No standard yet for {name}. Run `modelbench calibrate --update` to add one.":
\* `about` keeps the identifier it names and the command it tells the operator to run.
reference_standard_for(d, name) ==
    IF name \notin DOMAIN d
    THEN Raise("ValueError", [name |-> name, run |-> "modelbench calibrate --update"])
    ELSE Return(d[name])

\* The keys the comprehension of average_standard_across_references keeps.
MatchingKeys(d, locale) == {k \in DOMAIN d : Contains(locale, k)}

\* Standards.average_standard_across_references(locale, version).
average_standard_across_references(d, locale, version) ==
    IF version /= "1.0" THEN Raise("AssertionError", "Only version 1.0 is supported.")
    ELSE IF locale = << >> THEN Raise("ValueError", "Locale is required for v1.0 scoring.")
    ELSE LET l == lower(locale) IN
         IF ~validate_locale(l) THEN Raise("AssertionError", "validate_locale")
         ELSE LET values == MatchingKeys(d, l) IN
              IF Cardinality(values) = 0
              THEN Raise("AssertionError", "No reference values found")
              ELSE Return(fmean(d, values))

\* The store of the scenario: two references of hazard "dfm" in locale "en_US".
ScenarioStore == (K_dfm_en_US_practice :> 80) @@ (K_dfm_en_US_official :> 60)

\* Standards(path): the constructor reloads; no call has been made yet.
StdInit ==
    /\ data \in Stores
    /\ stdCall = None
    /\ stdRet = None

\* The Standards object when the model follows another component.
StdIdle ==
    /\ data = ScenarioStore
    /\ stdCall = None
    /\ stdRet = None

\* Standards.reload(): the file is read again; it may hold any store.
reload ==
    /\ data' \in Stores
    /\ stdCall' = None
    /\ stdRet' = None
    /\ UNCHANGED <<dlVars, sutVars>>

CallReferenceStandardFor ==
    \E name \in KeyPool :
        /\ stdCall' = [kind |-> "reference_standard_for", name |-> name]
        /\ stdRet' = reference_standard_for(data, name)
        /\ UNCHANGED <<data, dlVars, sutVars>>

CallAverageStandard ==
    \E locale \in LocaleArgs, version \in Versions :
        /\ stdCall' = [kind |-> "average_standard_across_references",
                       locale |-> locale, version |-> version]
        /\ stdRet' = average_standard_across_references(data, locale, version)
        /\ UNCHANGED <<data, dlVars, sutVars>>

(***************************************************************************)
(* External data: download(location) under tenacity's @retry               *)
(***************************************************************************)
\* stop_after_attempt(5)
MaxAttempts == 5

\* A faulty variant of stop_after_attempt: one attempt too many.
stop_after_attempt_late(attempt_number) == attempt_number > MaxAttempts

\* tenacity.stop_after_attempt(5): stop once the attempt number reaches 5.
stop_after_attempt(attempt_number) == attempt_number >= MaxAttempts

\* reraise=True: when the retries stop, the last attempt's exception is raised
\* as it is.
Reraise(exc) == exc

Exc(exc, about) == [exc |-> exc, about |-> about]

\* The statuses the remote server answers with, and the kinds of body.
HTTPStatuses == {200, 204, 304, 404, 500}
Bodies == {"empty", "data"}

\* requests.Response.ok: raise_for_status() would not raise, which it does for
\* 400 <= status < 600.
ResponseOk(status) == ~(400 <= status /\ status < 600)

RemotePaths == {"a.csv", "b.csv"}

DataSources ==
    {[kind |-> "WebData"]}
    \cup [kind : {"SecretWebData"}, header : {"", "X-Api-Key"},
          secret : {"none", "empty", "set"}]
    \cup [kind : {"GDriveData"}, file_path : RemotePaths]

DlIdle ==
    /\ dlSrc = None
    /\ dlPc = "idle"
    /\ attempts = 0
    /\ excLog = << >>
    /\ propagated = None
    /\ file = "absent"
    /\ httpRequests = 0
    /\ lastFetch = None

\* A caller calls download(location) on a data source; `location` holds no file yet.
DownloadCall ==
    /\ dlPc \in {"idle", "returned", "raised"}
    /\ dlSrc' \in DataSources
    /\ dlPc' = "running"
    /\ attempts' = 0
    /\ excLog' = << >>
    /\ propagated' = None
    /\ file' = "absent"
    /\ httpRequests' = 0
    /\ lastFetch' = None
    /\ UNCHANGED <<stdVars, sutVars>>

\* What tenacity does with the result of one run of the body: a normal return ends
\* the call; an exception ends it when stop_after_attempt says so, and is followed
\* by a wait and another attempt otherwise.
AfterAttempt(result) ==
    /\ attempts' = attempts + 1
    /\ IF result.kind = "return"
       THEN /\ dlPc' = "returned"
            /\ UNCHANGED <<excLog, propagated>>
       ELSE /\ excLog' = Append(excLog, result.exc)
            /\ IF stop_after_attempt(attempts + 1)
               THEN /\ dlPc' = "raised"
                    /\ propagated' = Reraise(result.exc)
               ELSE /\ dlPc' = "running"
                    /\ UNCHANGED propagated

Returned == [kind |-> "return"]
Raised(exc) == [kind |-> "raise", exc |-> exc]

\* WebData.download: urllib.request.urlretrieve either writes the body it got
\* (which may be empty) to location, or raises.
WebDataAttempt ==
    /\ dlPc = "running"
    /\ dlSrc.kind = "WebData"
    /\ \/ \E body \in Bodies :
            /\ file' = body
            /\ lastFetch' = [kind |-> "urlretrieve", body |-> body]
            /\ AfterAttempt(Returned)
       \/ \E e \in {"URLError", "HTTPError"} :
            /\ lastFetch' = [kind |-> "urlretrieve", error |-> e]
            /\ AfterAttempt(Raised(Exc(e, "urlretrieve")))
            /\ UNCHANGED file
    /\ UNCHANGED <<dlSrc, httpRequests, stdVars, sutVars>>

\* A faulty variant of SecretWebDataBody: the body is written whatever the status.
SecretWebDataBodyNoStatusCheck(src, response) ==
    IF src.header = "" THEN Raised(Exc("ValueError", "needs a header"))
    ELSE IF src.secret = "none" THEN Raised(Exc("ValueError", "needs a secret"))
    ELSE IF src.secret = "empty" THEN Raised(Exc("MissingSecretValues", "secret"))
    ELSE IF response.kind = "error" THEN Raised(Exc("ConnectionError", "requests.get"))
    ELSE Returned

\* The body of SecretWebData.download, given what requests.get does if it is
\* reached: the three checks of the configuration, then the status check.
SecretWebDataBody(src, response) ==
    IF src.header = "" THEN Raised(Exc("ValueError", "needs a header"))
    ELSE IF src.secret = "none" THEN Raised(Exc("ValueError", "needs a secret"))
    ELSE IF src.secret = "empty" THEN Raised(Exc("MissingSecretValues", "secret"))
    ELSE IF response.kind = "error" THEN Raised(Exc("ConnectionError", "requests.get"))
    ELSE IF ResponseOk(response.status) THEN Returned
    ELSE Raised(Exc("RuntimeError", response.status))

\* Whether the body of SecretWebData.download gets as far as requests.get.
SecretConfigured(src) == src.header /= "" /\ src.secret = "set"

Responses ==
    {[kind |-> "error"]} \cup [kind : {"response"}, status : HTTPStatuses, body : Bodies]

SecretWebDataAttempt ==
    /\ dlPc = "running"
    /\ dlSrc.kind = "SecretWebData"
    /\ \E response \in Responses :
         LET result == SecretWebDataBody(dlSrc, response) IN
         /\ httpRequests' = IF SecretConfigured(dlSrc) THEN httpRequests + 1 ELSE httpRequests
         /\ lastFetch' = IF SecretConfigured(dlSrc) THEN response ELSE None
         /\ file' = IF result.kind = "return" THEN response.body ELSE file
         /\ AfterAttempt(result)
    /\ UNCHANGED <<dlSrc, stdVars, sutVars>>

\* What gdown.download_folder(skip_download=True) gives: an exception, None (its
\* quiet failure) or the files of the folder; and what gdown.download does: writes
\* the file, raises, or returns None having written nothing.
FolderListings == {[kind |-> "error"], [kind |-> "None"]}
                  \cup [kind : {"files"}, paths : SUBSET RemotePaths]
GdownOutcomes == {"data", "empty", "nothing", "error"}

\* The body of GDriveData.download.
GDriveDataBody(src, listing, gdown) ==
    IF listing.kind = "error" THEN Raised(Exc("FolderContentsError", "download_folder"))
    ELSE IF listing.kind = "None" THEN Raised(Exc("TypeError", "available_files"))
    ELSE IF src.file_path \in listing.paths
         THEN IF gdown = "error" THEN Raised(Exc("FileURLRetrievalError", "gdown.download"))
              ELSE Returned
         ELSE Raised(Exc("RuntimeError", "Cannot find file"))

GDriveDataAttempt ==
    /\ dlPc = "running"
    /\ dlSrc.kind = "GDriveData"
    /\ \E listing \in FolderListings, gdown \in GdownOutcomes :
         LET result == GDriveDataBody(dlSrc, listing, gdown) IN
         /\ lastFetch' = [listing |-> listing.kind,
                          found |-> listing.kind = "files" /\ dlSrc.file_path \in listing.paths,
                          gdown |-> gdown]
         /\ file' = IF result.kind = "return" /\ gdown \in Bodies THEN gdown ELSE file
         /\ AfterAttempt(result)
    /\ UNCHANGED <<dlSrc, httpRequests, stdVars, sutVars>>

(***************************************************************************)
(* SUT adapters: prompts and requests                                      *)
(***************************************************************************)
\* An option of the options bag is "None" when unset; a set option holds the text
\* of its value. Each option has a value of its own, so that a value sent under
\* the wrong name shows; temperature and stop_sequences also take their falsy
\* values, 0.0 and [].
OptionValues ==
    [stop_sequences |-> {"None", "[]", "[stop]"},
     max_tokens |-> {"None", "100"},
     temperature |-> {"None", "0.0", "0.7"},
     top_p |-> {"None", "0.9"},
     top_k_per_token |-> {"None", "40"},
     presence_penalty |-> {"None", "0.1"},
     frequency_penalty |-> {"None", "0.2"}]

OptionNames == DOMAIN OptionValues

OptionBags ==
    [stop_sequences : OptionValues.stop_sequences,
     max_tokens : OptionValues.max_tokens,
     temperature : OptionValues.temperature,
     top_p : OptionValues.top_p,
     top_k_per_token : OptionValues.top_k_per_token,
     presence_penalty : OptionValues.presence_penalty,
     frequency_penalty : OptionValues.frequency_penalty]

\* TextPrompt: a text and an options bag.
Prompts == [text : {"hello"}, options : OptionBags]

\* A faulty variant of ExcludeNone: the unset fields are dumped too, as nulls.
IncludeNone(fields) == fields

\* model_dump(exclude_none=True) on a model's fields: the fields that are None
\* are left out.
ExcludeNone(fields) ==
    [k \in {n \in DOMAIN fields : fields[n] /= "None"} |-> fields[k]]

\* GoogleGenAiSUT.translate_text_prompt
GoogleTranslateTextPrompt(prompt) ==
    [contents |-> prompt.text,
     generation_config |->
        [stop_sequences |-> prompt.options.stop_sequences,
         max_output_tokens |-> prompt.options.max_tokens,
         temperature |-> prompt.options.temperature,
         top_p |-> prompt.options.top_p,
         top_k |-> prompt.options.top_k_per_token,
         presence_penalty |-> prompt.options.presence_penalty,
         frequency_penalty |-> prompt.options.frequency_penalty]]

\* request.model_dump(exclude_none=True) on a GoogleGenAiRequest: the keyword
\* arguments generate_content is called with.
GoogleModelDump(request) ==
    [contents |-> request.contents,
     generation_config |-> ExcludeNone(request.generation_config)]

\* HuggingFaceSUT.translate_text_prompt
HuggingFaceTranslateTextPrompt(prompt) ==
    [inputs |-> prompt.text,
     parameters |->
        [max_new_tokens |-> prompt.options.max_tokens,
         temperature |-> prompt.options.temperature]]

\* request.model_dump(exclude_none=True) on a HuggingFaceChatRequest: the JSON
\* payload that is posted.
HuggingFaceModelDump(request) ==
    [inputs |-> request.inputs,
     parameters |-> ExcludeNone(request.parameters)]

\* The field of GoogleGenAiConfig that carries each option of the bag.
GoogleFieldOf ==
    [stop_sequences |-> "stop_sequences",
     max_tokens |-> "max_output_tokens",
     temperature |-> "temperature",
     top_p |-> "top_p",
     top_k_per_token |-> "top_k",
     presence_penalty |-> "presence_penalty",
     frequency_penalty |-> "frequency_penalty"]

\* The field of HuggingFaceChatParams that carries an option of the bag; the class
\* has a field for two of them only.
HuggingFaceFieldOf ==
    [max_tokens |-> "max_new_tokens",
     temperature |-> "temperature"]

(***************************************************************************)
(* GoogleGenAiSUT: evaluate with its lazily made client                    *)
(***************************************************************************)
Threads == {1, 2}

\* The largest number of GoogleGenAiSUT.evaluate calls the model follows.
MaxEvalCalls == 3

\* The largest number of candidates in a vendor response of the model.
MaxCandidates == 2

\* The `content` dicts of a candidate: with a text part, with no parts, with an
\* empty list of parts, with a part that has no text.
Contents ==
    {[parts |-> <<[text |-> "answer"]>>],
     [role |-> "model"],
     [parts |-> << >>],
     [parts |-> <<[inline_data |-> "bytes"]>>]}

CandidateLists == UNION {[1..n -> Contents] : n \in 0..MaxCandidates}

\* What generate_content gives: an API error, a response whose to_dict() does not
\* validate as a GoogleGenAiResponse, or one that does, with its candidates.
GoogleOutcomes ==
    {[kind |-> "error"], [kind |-> "malformed"]}
    \cup [kind : {"response"}, candidates : CandidateLists]

SutIdle ==
    /\ gModel = None
    /\ gPc = [t \in Threads |-> "idle"]
    /\ gPrompt = [t \in Threads |-> None]
    /\ gReq = [t \in Threads |-> None]
    /\ gSent = [t \in Threads |-> None]
    /\ hfCall = None
    /\ loadCalls = 0
    /\ loadFailures = 0
    /\ clientsUsed = {}
    /\ evalCalls = 0
    /\ last = None

\* GoogleGenAiSUT.__init__: self.model = None; no client is made.
SutInit == SutIdle

Client(n) == [kind |-> "client", id |-> n]

NoCallInProgress == hfCall = None /\ \A u \in Threads : gPc[u] = "idle"

\* A thread calls evaluate(translate_text_prompt(prompt)) while no other call is
\* in progress.
GEvaluateCall(t) ==
    /\ NoCallInProgress
    /\ evalCalls < MaxEvalCalls
    /\ \E prompt \in Prompts :
         /\ gPrompt' = [gPrompt EXCEPT ![t] = prompt]
         /\ gReq' = [gReq EXCEPT ![t] = GoogleTranslateTextPrompt(prompt)]
    /\ gPc' = [gPc EXCEPT ![t] = "check"]
    /\ evalCalls' = evalCalls + 1
    /\ last' = None
    /\ UNCHANGED <<gModel, gSent, hfCall, loadCalls, loadFailures, clientsUsed,
                   stdVars, dlVars>>

\* A faulty variant of NeedsClient: a client is made on every call.
NeedsClientAlways(model) == TRUE

\* `if self.model is None:`
NeedsClient(model) == model = None

GCheckModel(t) ==
    /\ gPc[t] = "check"
    /\ gPc' = [gPc EXCEPT ![t] = IF NeedsClient(gModel) THEN "load" ELSE "generate"]
    /\ UNCHANGED <<gModel, gFlight, hfCall, loadCalls, loadFailures, clientsUsed,
                   evalCalls, last, stdVars, dlVars>>

\* What evaluate leaves behind when it ends: its result, and no call in flight.
GEvaluateEnds(t, client, result) ==
    /\ last' = [adapter |-> "google", op |-> "evaluate", thread |-> t,
                client |-> client, result |-> result]
    /\ gPc' = [gPc EXCEPT ![t] = "idle"]
    /\ gPrompt' = [gPrompt EXCEPT ![t] = None]
    /\ gReq' = [gReq EXCEPT ![t] = None]
    /\ gSent' = [gSent EXCEPT ![t] = None]

\* A faulty variant of ModelAfterLoad: a failed construction leaves a client behind.
ModelAfterLoadKeepsBroken(model, ok, n) ==
    IF ok THEN Client(n) ELSE [kind |-> "client", id |-> n, broken |-> TRUE]

\* `self.model = self._load_client()`: the assignment happens only when
\* _load_client returns; when it raises, self.model is what it was.
ModelAfterLoad(model, ok, n) == IF ok THEN Client(n) ELSE model

\* self._load_client(): genai.GenerativeModel(self.model_name) returns a client or
\* raises; the exception leaves evaluate.
GLoadClient(t) ==
    /\ gPc[t] = "load"
    /\ loadCalls' = loadCalls + 1
    /\ \E ok \in BOOLEAN :
         /\ gModel' = ModelAfterLoad(gModel, ok, loadCalls + 1)
         /\ IF ok
            THEN /\ gPc' = [gPc EXCEPT ![t] = "generate"]
                 /\ UNCHANGED <<gFlight, loadFailures, last>>
            ELSE /\ loadFailures' = loadFailures + 1
                 /\ GEvaluateEnds(t, None, Raise("Exception", "_load_client"))
    /\ UNCHANGED <<hfCall, clientsUsed, evalCalls, stdVars, dlVars>>

\* self.model.generate_content(**request.model_dump(exclude_none=True)): the
\* request goes out on the client self.model holds.
GGenerate(t) ==
    /\ gPc[t] = "generate"
    /\ clientsUsed' = clientsUsed \cup {gModel}
    /\ gSent' = [gSent EXCEPT ![t] = GoogleModelDump(gReq[t])]
    /\ gPc' = [gPc EXCEPT ![t] = "await"]
    /\ UNCHANGED <<gModel, gPrompt, gReq, hfCall, loadCalls, loadFailures, evalCalls,
                   last, stdVars, dlVars>>

\* GoogleGenAiResponse(**response.to_dict())
GoogleEvaluateResult(outcome) ==
    IF outcome.kind = "error" THEN Raise("GoogleAPIError", "generate_content")
    ELSE IF outcome.kind = "malformed" THEN Raise("ValidationError", "GoogleGenAiResponse")
    ELSE Return([candidates |-> outcome.candidates])

\* generate_content answers, and evaluate returns the converted response or raises.
GReceive(t) ==
    /\ gPc[t] = "await"
    /\ \E outcome \in GoogleOutcomes :
         GEvaluateEnds(t, gModel, GoogleEvaluateResult(outcome))
    /\ UNCHANGED <<gModel, hfCall, loadCalls, loadFailures, clientsUsed, evalCalls,
                   stdVars, dlVars>>

RECURSIVE GoogleCompletions(_)
\* The loop of GoogleGenAiSUT.translate_response over the candidates:
\* candidate.content["parts"][0]["text"] of each, or the exception of the first
\* candidate that lacks one of the three.
GoogleCompletions(candidates) ==
    IF candidates = << >> THEN Return(<< >>)
    ELSE LET content == Head(candidates) IN
         IF "parts" \notin DOMAIN content THEN Raise("KeyError", "parts")
         ELSE IF Len(content.parts) = 0 THEN Raise("IndexError", "parts[0]")
         ELSE IF "text" \notin DOMAIN content.parts[1] THEN Raise("KeyError", "text")
         ELSE LET rest == GoogleCompletions(Tail(candidates)) IN
              IF rest.kind = "raise" THEN rest
              ELSE Return(<<[text |-> content.parts[1].text]>> \o rest.value)

\* GoogleGenAiSUT.translate_response
GoogleTranslateResponse(response) ==
    LET c == GoogleCompletions(response.candidates) IN
    IF c.kind = "raise" THEN c ELSE Return([completions |-> c.value])

\* translate_response is called on the response evaluate has just returned.
GTranslateResponse ==
    /\ NoCallInProgress
    /\ last /= None
    /\ last.adapter = "google" /\ last.op = "evaluate" /\ last.result.kind = "return"
    /\ last' = [adapter |-> "google", op |-> "translate_response",
                response |-> last.result.value,
                result |-> GoogleTranslateResponse(last.result.value)]
    /\ UNCHANGED <<gModel, gPc, gFlight, hfCall, loadCalls, loadFailures, clientsUsed,
                   evalCalls, stdVars, dlVars>>

(***************************************************************************)
(* HuggingFaceSUT                                                          *)
(***************************************************************************)
HFStatuses == {200, 201, 302, 404, 503}

JStr(v) == [j |-> "str", v |-> v]
JInt(v) == [j |-> "int", v |-> v]
JDict(fields) == [j |-> "dict", fields |-> fields]
JList(items) == [j |-> "list", items |-> items]

\* The bodies the endpoint answers with: not JSON at all, or a JSON value.
HFBodies ==
    {[j |-> "invalid"],
     JList(<< >>),
     JDict([error |-> JStr("overloaded")]),
     JList(<<JStr("text")>>),
     JList(<<JDict([score |-> JInt("1")])>>),
     JList(<<JDict([generated_text |-> JInt("5")])>>),
     JList(<<JDict([generated_text |-> JStr("answer")])>>),
     JList(<<JDict([generated_text |-> JStr("")])>>),
     JList(<<JDict([generated_text |-> JStr("answer"), details |-> JStr("x")])>>)}

\* requests.Response.raise_for_status(): raises HTTPError for 400 <= status < 600
\* and does nothing for any other status.
RaiseForStatus(status) == 400 <= status /\ status < 600

\* HuggingFaceResponse(**response.json()[0])
HFParse(body) ==
    IF body.j = "invalid" THEN Raise("JSONDecodeError", "response.json()")
    ELSE IF body.j = "dict" THEN Raise("KeyError", "[0]")
    ELSE IF body.j /= "list" THEN Raise("TypeError", "[0]")
    ELSE IF Len(body.items) = 0 THEN Raise("IndexError", "[0]")
    ELSE LET first == body.items[1] IN
         IF first.j /= "dict" THEN Raise("TypeError", "HuggingFaceResponse(**)")
         ELSE IF "generated_text" \notin DOMAIN first.fields
              THEN Raise("ValidationError", "generated_text missing")
         ELSE IF first.fields.generated_text.j /= "str"
              THEN Raise("ValidationError", "generated_text not a string")
         ELSE Return([generated_text |-> first.fields.generated_text.v])

\* The try block of HuggingFaceSUT.evaluate; the except clause prints and raises
\* the exception again.
HFEvaluateResult(status, body) ==
    IF status /= 200 /\ RaiseForStatus(status)
    THEN Raise("HTTPError", status)
    ELSE HFParse(body)

\* HuggingFaceSUT.evaluate(translate_text_prompt(prompt)) up to requests.post: the
\* payload is dumped from the request and posted.
HFEvaluateCall ==
    /\ NoCallInProgress
    /\ \E prompt \in Prompts :
         LET request == HuggingFaceTranslateTextPrompt(prompt) IN
         hfCall' = [prompt |-> prompt, request |-> request,
                    sent |-> HuggingFaceModelDump(request)]
    /\ last' = None
    /\ UNCHANGED <<gModel, gPc, gFlight, loadCalls, loadFailures, clientsUsed,
                   evalCalls, stdVars, dlVars>>

\* The endpoint answers with a status and a body, and evaluate returns or raises.
HFReceive ==
    /\ hfCall /= None
    /\ \E status \in HFStatuses, body \in HFBodies :
         last' = [adapter |-> "huggingface", op |-> "evaluate",
                  status |-> status, body |-> body,
                  result |-> HFEvaluateResult(status, body)]
    /\ hfCall' = None
    /\ UNCHANGED <<gModel, gPc, gFlight, loadCalls, loadFailures, clientsUsed,
                   evalCalls, stdVars, dlVars>>

\* HuggingFaceSUT.translate_response
HuggingFaceTranslateResponse(response) ==
    Return([completions |-> <<[text |-> response.generated_text]>>])

HFTranslateResponse ==
    /\ NoCallInProgress
    /\ last /= None
    /\ last.adapter = "huggingface" /\ last.op = "evaluate"
    /\ last.result.kind = "return"
    /\ last' = [adapter |-> "huggingface", op |-> "translate_response",
                response |-> last.result.value,
                result |-> HuggingFaceTranslateResponse(last.result.value)]
    /\ UNCHANGED <<gModel, gPc, gFlight, hfCall, loadCalls, loadFailures, clientsUsed,
                   evalCalls, stdVars, dlVars>>

(***************************************************************************)
(* Specifications                                                          *)
(***************************************************************************)
StdNext == reload \/ CallReferenceStandardFor \/ CallAverageStandard

StdSpecInit == StdInit /\ DlIdle /\ SutIdle

SpecStandards == StdSpecInit /\ [][StdNext]_vars

DlInit == StdIdle /\ DlIdle /\ SutIdle

DlNext == DownloadCall \/ WebDataAttempt \/ SecretWebDataAttempt \/ GDriveDataAttempt

SpecDownload == DlInit /\ [][DlNext]_vars

SutSeqInit == StdIdle /\ DlIdle /\ SutInit

SutSeqNext ==
    \/ \E t \in Threads : GEvaluateCall(t)
    \/ \E t \in Threads : GCheckModel(t)
    \/ \E t \in Threads : GLoadClient(t)
    \/ \E t \in Threads : GGenerate(t)
    \/ \E t \in Threads : GReceive(t)
    \/ GTranslateResponse
    \/ HFEvaluateCall
    \/ HFReceive
    \/ HFTranslateResponse

SpecSUT == SutSeqInit /\ [][SutSeqNext]_vars

\* The prompts concurrent callers pass: every option unset, or every option set.
ConcurrentPrompts ==
    {p \in Prompts :
        \A o, q \in OptionNames : (p.options[o] = "None") = (p.options[q] = "None")}

\* A thread that is not inside evaluate calls evaluate(translate_text_prompt(prompt)),
\* whatever the other threads are doing: evaluate takes no lock.
GEvaluateCallConcurrent(t) ==
    /\ gPc[t] = "idle"
    /\ evalCalls < MaxEvalCalls
    /\ \E prompt \in ConcurrentPrompts :
         /\ gPrompt' = [gPrompt EXCEPT ![t] = prompt]
         /\ gReq' = [gReq EXCEPT ![t] = GoogleTranslateTextPrompt(prompt)]
    /\ gPc' = [gPc EXCEPT ![t] = "check"]
    /\ evalCalls' = evalCalls + 1
    /\ UNCHANGED <<gModel, gSent, hfCall, loadCalls, loadFailures, clientsUsed, last,
                   stdVars, dlVars>>

SutConcurrentInit == StdIdle /\ DlIdle /\ SutInit

\* Several threads inside GoogleGenAiSUT.evaluate at once, their steps interleaved.
SutConcurrentNext ==
    \/ \E t \in Threads : GEvaluateCallConcurrent(t)
    \/ \E t \in Threads : GCheckModel(t)
    \/ \E t \in Threads : GLoadClient(t)
    \/ \E t \in Threads : GGenerate(t)
    \/ \E t \in Threads : GReceive(t)

SpecSUTConcurrent == SutConcurrentInit /\ [][SutConcurrentNext]_vars

(***************************************************************************)
(* Standards: claims C1 - C3                                               *)
(***************************************************************************)
\* The keys that contain the locale when case is ignored on both sides.
CaseInsensitiveMatches(d, locale) ==
    {k \in DOMAIN d : Contains(lower(locale), lower(k))}

IsAverageCall == stdCall.kind = "average_standard_across_references"

\* A locale the code accepts: non-empty and, lower-cased, a supported locale.
ValidLocaleArg(locale) == locale /= << >> /\ validate_locale(lower(locale))

\* C1: for version "1.0" and a valid locale, average_standard_across_references
\* returns the arithmetic mean of exactly the reference values whose key contains
\* the locale, case ignored (stated where at least one key does).
C1_MeanOfCaseInsensitiveMatches ==
    (/\ IsAverageCall
     /\ stdCall.version = "1.0"
     /\ ValidLocaleArg(stdCall.locale)
     /\ CaseInsensitiveMatches(data, stdCall.locale) /= {})
    => LET M == CaseInsensitiveMatches(data, stdCall.locale) IN
       /\ stdRet.kind = "return"
       /\ stdRet.value.num * Cardinality(M) = SumOver(data, M) * stdRet.value.den

\* C2: average_standard_across_references raises whenever the version is not
\* "1.0", the locale is empty or no key matches the locale (case ignored); it
\* returns for version "1.0", a valid locale and at least one matching key.
C2_FailsExactlyWhenItShould ==
    IsAverageCall =>
        LET M == CaseInsensitiveMatches(data, stdCall.locale) IN
        /\ stdCall.version /= "1.0" => stdRet.kind = "raise"
        /\ stdCall.locale = << >> => stdRet.kind = "raise"
        /\ M = {} => stdRet.kind = "raise"
        /\ (stdCall.version = "1.0" /\ ValidLocaleArg(stdCall.locale) /\ M /= {})
           => stdRet.kind = "return"

\* C3: reference_standard_for(name) returns the stored value of a name that is a
\* key, and for any other name raises a ValueError that names the identifier and
\* tells the operator to run the calibration; it never returns a default.
C3_LookupOrRecalibrate ==
    stdCall.kind = "reference_standard_for" =>
        IF stdCall.name \in DOMAIN data
        THEN stdRet = Return(data[stdCall.name])
        ELSE /\ stdRet.kind = "raise"
             /\ stdRet.exc = "ValueError"
             /\ stdRet.about.name = stdCall.name
             /\ stdRet.about.run = "modelbench calibrate --update"

\* C3's case: a lookup of a name the store does not hold has raised.
C3_Witness ==
    /\ stdCall.kind = "reference_standard_for"
    /\ stdCall.name \notin DOMAIN data
    /\ data /= << >>
    /\ stdRet.kind = "raise"

(***************************************************************************)
(* External data: claims C4, C5                                            *)
(***************************************************************************)
\* C4: one call of download makes at most 5 attempts; it stops at the first attempt
\* that succeeds; when all 5 fail it ends by raising the last attempt's exception;
\* it goes on retrying only after fewer than 5 failures.
C4_AtMostFiveAttempts ==
    /\ attempts <= 5
    /\ dlPc = "running" => attempts < 5 /\ Len(excLog) = attempts
    /\ dlPc = "returned" => Len(excLog) = attempts - 1 /\ propagated = None
    /\ dlPc = "raised" => /\ attempts = 5
                          /\ Len(excLog) = 5
                          /\ propagated = excLog[5]

\* C4's case: five attempts have failed, the last one differently from the one
\* before it, and the call has raised.
C4_Witness ==
    /\ dlPc = "raised"
    /\ Len(excLog) = 5
    /\ excLog[4] /= excLog[5]

\* C5 as stated, for the two sources it cites (SecretWebData, GDriveData): whenever
\* download returns normally the file at location exists and is not empty, and a
\* response that is not 2xx does not let it return.
C5_ReturnMeansNonEmptyFile ==
    (dlPc = "returned" /\ dlSrc.kind \in {"SecretWebData", "GDriveData"}) =>
        /\ file = "data"
        /\ dlSrc.kind = "SecretWebData" =>
               lastFetch.status >= 200 /\ lastFetch.status < 300

\* C5, amended: whenever download returns normally its last attempt's fetch
\* succeeded: for WebData and SecretWebData the file at location exists and holds
\* the body received, which may be empty, and SecretWebData's response had a status
\* for which response.ok holds (not 400..599); for GDriveData the file was found in
\* the folder's index and gdown.download was called on it and did not raise.
\* Whenever the last attempt's fetch failed (missing header or secret, a status of
\* 400..599, a request error, the file not in the index) download does not return.
C5_ReturnMeansFetchSucceeded ==
    dlPc = "returned" =>
        /\ dlSrc.kind = "WebData" => file \in Bodies /\ file = lastFetch.body
        /\ dlSrc.kind = "SecretWebData" =>
               /\ SecretConfigured(dlSrc)
               /\ lastFetch.kind = "response"
               /\ ~(lastFetch.status >= 400 /\ lastFetch.status < 600)
               /\ file \in Bodies /\ file = lastFetch.body
        /\ dlSrc.kind = "GDriveData" =>
               lastFetch.found /\ lastFetch.gdown /= "error"

\* C5's case: SecretWebData.download has returned normally on an ok response with
\* an empty body, after a failed attempt.
C5_Witness ==
    /\ dlPc = "returned"
    /\ dlSrc.kind = "SecretWebData"
    /\ file = "empty"
    /\ Len(excLog) > 0

(***************************************************************************)
(* SUT adapters: claims C6 - C10                                           *)
(***************************************************************************)
\* The payloads on the wire: for each, the prompt it was built from, the option
\* fields it carries and the field that carries each option.
PayloadsSent ==
    {[adapter |-> "google", prompt |-> gPrompt[t],
      fields |-> gSent[t].generation_config, fieldOf |-> GoogleFieldOf] :
        t \in {u \in Threads : gPc[u] = "await"}}
    \cup
    (IF hfCall = None THEN {}
     ELSE {[adapter |-> "huggingface", prompt |-> hfCall.prompt,
            fields |-> hfCall.sent.parameters, fieldOf |-> HuggingFaceFieldOf]})

\* Whether payload p has an entry for option o, and the value of that entry.
HasEntry(p, o) == o \in DOMAIN p.fieldOf /\ p.fieldOf[o] \in DOMAIN p.fields
EntryOf(p, o) == p.fields[p.fieldOf[o]]

\* C6 as stated: the payload evaluate sends has no entry for an option that is
\* unset in the prompt's options bag, and every option that is set is sent with
\* exactly the prompt's value, for both adapters.
C6_EverySetOptionIsSent ==
    \A p \in PayloadsSent : \A o \in OptionNames :
        IF p.prompt.options[o] = "None"
        THEN ~HasEntry(p, o)
        ELSE HasEntry(p, o) /\ EntryOf(p, o) = p.prompt.options[o]

\* C6, amended: the payload evaluate sends has no entry for an unset option and no
\* null entry at all; every set option that the adapter's request has a field for
\* (all seven for GoogleGenAiSUT; max_tokens and temperature for HuggingFaceSUT) is
\* sent with exactly the prompt's value; HuggingFaceSUT sends no entry for any
\* other option, set or unset.
C6_UnsetOmittedAndCarriedOptionsSent ==
    \A p \in PayloadsSent :
        /\ \A k \in DOMAIN p.fields : p.fields[k] /= "None"
        /\ DOMAIN p.fields \subseteq {p.fieldOf[o] : o \in DOMAIN p.fieldOf}
        /\ p.adapter = "google" => DOMAIN p.fieldOf = OptionNames
        /\ p.adapter = "huggingface" => DOMAIN p.fieldOf = {"max_tokens", "temperature"}
        /\ \A o \in OptionNames :
              IF p.prompt.options[o] /= "None" /\ o \in DOMAIN p.fieldOf
              THEN HasEntry(p, o) /\ EntryOf(p, o) = p.prompt.options[o]
              ELSE ~HasEntry(p, o)

\* C6's case: HuggingFaceSUT has posted the payload of a prompt with top_p and
\* max_tokens set and temperature unset.
C6_Witness ==
    /\ hfCall /= None
    /\ hfCall.prompt.options.top_p /= "None"
    /\ hfCall.prompt.options.max_tokens /= "None"
    /\ hfCall.prompt.options.temperature = "None"
    /\ DOMAIN hfCall.sent.parameters = {"max_new_tokens"}

\* A body HuggingFaceResponse can be made from: a JSON list whose first item is an
\* object with a string under "generated_text".
WellFormedBody(body) ==
    /\ body.j = "list"
    /\ Len(body.items) > 0
    /\ body.items[1].j = "dict"
    /\ "generated_text" \in DOMAIN body.items[1].fields
    /\ body.items[1].fields.generated_text.j = "str"

IsHFEvaluate == last /= None /\ last.adapter = "huggingface" /\ last.op = "evaluate"

\* C7: HuggingFaceSUT.evaluate returns a HuggingFaceResponse only when the endpoint
\* answered with status 200 and a well-formed body; for every other status and for
\* every malformed body it raises.
C7_ReturnsOnlyOn200 ==
    IsHFEvaluate =>
        (last.result.kind = "return") = (last.status = 200 /\ WellFormedBody(last.body))

RealClients == {Client(n) : n \in 1..loadCalls}

InEvaluateWithClient(t) == gPc[t] \in {"generate", "await"}

\* C8: in a sequence of evaluate calls on one GoogleGenAiSUT, no client exists
\* before _load_client has been called; as long as no construction has failed,
\* _load_client has run at most once, it has run exactly once as soon as a call is
\* past the lazy initialization or has ended, and every call uses the one client
\* it made, which is the cached one.
C8_ClientMadeOnceAndReused ==
    /\ loadCalls = 0 => gModel = None /\ clientsUsed = {}
    /\ evalCalls = 0 => loadCalls = 0
    /\ loadFailures = 0 =>
          /\ loadCalls <= 1
          /\ gModel \in {None, Client(1)}
          /\ clientsUsed \subseteq {Client(1)}
          /\ \A t \in Threads :
                InEvaluateWithClient(t) => loadCalls = 1 /\ gModel = Client(1)
          /\ (last /= None /\ last.adapter = "google" /\ last.op = "evaluate")
                => loadCalls = 1 /\ last.client = Client(1) /\ gModel = Client(1)

\* C8's case: the second evaluate call has sent its request on the client the
\* first call made, and no construction has failed.
C8_Witness ==
    /\ evalCalls = 2
    /\ loadCalls = 1
    /\ loadFailures = 0
    /\ \E t \in Threads : gPc[t] = "await"
    /\ clientsUsed = {Client(1)}

IsGTranslate == last /= None /\ last.op = "translate_response" /\ last.adapter = "google"
IsHFTranslate ==
    last /= None /\ last.op = "translate_response" /\ last.adapter = "huggingface"

\* C9: translate_response either returns a SUTResponse whose completion list is not
\* empty or raises, for both adapters; each completion's text is the text of the
\* vendor's field, never a substitute for a missing one.
C9_NoEmptyCompletionList ==
    ((IsGTranslate \/ IsHFTranslate) /\ last.result.kind = "return") =>
        LET completions == last.result.value.completions IN
        /\ Len(completions) > 0
        /\ IsGTranslate =>
              /\ Len(completions) = Len(last.response.candidates)
              /\ \A i \in 1..Len(completions) :
                    LET content == last.response.candidates[i] IN
                    /\ "parts" \in DOMAIN content
                    /\ Len(content.parts) > 0
                    /\ "text" \in DOMAIN content.parts[1]
                    /\ completions[i].text = content.parts[1].text
        /\ IsHFTranslate => completions[1].text = last.response.generated_text

LoadJustFailed ==
    /\ last /= None
    /\ last.adapter = "google" /\ last.op = "evaluate"
    /\ last.result = Raise("Exception", "_load_client")

\* What C10 says of every state: the client cached is never anything but None or a
\* client a successful construction returned; after a failed construction the
\* exception has reached the caller and self.model is None; a call sends its
\* request only on a client a construction returned.
C10_NoBrokenClient ==
    /\ gModel \in {None} \cup RealClients
    /\ clientsUsed \subseteq RealClients
    /\ loadCalls = loadFailures => gModel = None
    /\ LoadJustFailed => gModel = None /\ last.client = None /\ NoCallInProgress
    /\ \A t \in Threads : InEvaluateWithClient(t) => gModel \in RealClients

\* What C10 says of every step: a call that finds self.model None goes on to
\* _load_client, and a construction that fails leaves self.model None and ends
\* the call with the exception.
C10_Step ==
    \A t \in Threads :
        /\ (gPc[t] = "check" /\ gModel = None /\ gPc'[t] /= "check") => gPc'[t] = "load"
        /\ (gPc[t] = "load" /\ loadFailures' /= loadFailures) =>
              /\ gModel = None /\ gModel' = None
              /\ gPc'[t] = "idle"
              /\ last'.result.kind = "raise"

\* C10: if client construction fails inside GoogleGenAiSUT.evaluate the exception
\* propagates, no client is cached (self.model stays None) and the next evaluate
\* call attempts construction again; no call ever uses a half-made client.
C10_FailedConstructionLeavesNoClient == []C10_NoBrokenClient /\ [][C10_Step]_vars

\* C10's case: a construction failed, a later call constructed the client and has
\* sent its request on it.
C10_Witness ==
    /\ loadFailures >= 1
    /\ loadCalls = loadFailures + 1
    /\ gModel = Client(loadCalls)
    /\ \E t \in Threads : gPc[t] = "await"

(***************************************************************************)
(* External data: claim C11                                                *)
(***************************************************************************)
\* A SecretWebData with no header, no secret or an empty secret value.
MissingSecretConfig == dlSrc.kind = "SecretWebData" /\ ~SecretConfigured(dlSrc)

\* C11: SecretWebData.download with a missing header, a missing secret or an empty
\* secret value issues no HTTP request and is attempted exactly once: its first
\* attempt's exception reaches the caller and there is no retry.
C11_MissingSecretNotRetried ==
    MissingSecretConfig =>
        /\ httpRequests = 0
        /\ attempts <= 1
        /\ attempts = 1 => dlPc = "raised" /\ propagated = excLog[1]

(***************************************************************************)
(* GoogleGenAiSUT under concurrent callers: claim C12                      *)
(***************************************************************************)
\* C12: when several threads call evaluate concurrently on a GoogleGenAiSUT whose
\* client has not been made yet, then under every interleaving, as long as no
\* construction fails, the client is made exactly once and every call uses that
\* one cached client.
C12_ConcurrentCallsShareOneClient ==
    loadFailures = 0 =>
        /\ loadCalls <= 1
        /\ Cardinality(clientsUsed) <= 1
        /\ \A t \in Threads : InEvaluateWithClient(t) => gModel = Client(1)

====
